---- MODULE Spec2Model ----
(***************************************************************************)
(* pint/delegates/formatter/_helpers.py: the unit-expression formatter,    *)
(* the format-spec splitter and the magnitude/unit join helper.            *)
(*                                                                         *)
(* A Python str is a sequence of one-character strings, so that scanning,  *)
(* slicing, replacing and formatting are computed character by character.  *)
(* The flag registry (_FORMATTERS of pint.formatting) is a dict: it is the *)
(* sequence of its keys in insertion order.                                *)
(***************************************************************************)
EXTENDS Integers, Sequences, FiniteSets, TLC

VARIABLES
    FORMATTERS,                 \* keys of the flag registry, insertion order
    spec,                       \* split_format / _parse_spec / flag helpers: spec
    default,                    \* split_format: default
    separate_format_defaults,   \* split_format: "True" | "False" | "None"
    items,                      \* formatter: sequence of <<symbol, exponent>>
    as_ratio,                   \* formatter: as_ratio
    single_denominator,         \* formatter: single_denominator
    product_fmt,                \* formatter: product_fmt
    sort,                       \* formatter: sort
    mstr,                       \* join_mu: mstr
    ustr,                       \* join_mu: ustr
    pos_terms,                  \* formatter: pos_terms when it returned
    neg_terms,                  \* formatter: neg_terms when it returned
    op,                         \* the function that has returned, "" before
    ret,                        \* [value: the strings returned, raised: the exception]
    warned                      \* the warnings.warn calls of the call, in order

vars == <<FORMATTERS, spec, default, separate_format_defaults, items, as_ratio,
          single_denominator, product_fmt, sort, mstr, ustr, pos_terms, neg_terms,
          op, ret, warned>>

----------------------------------------------------------------------------
(* Bounds of the model. *)

\* longest spec string drawn
MaxLen == 3
\* longest default string drawn
MaxDefLen == 2
\* exponents are drawn from -MaxExp2/2 .. MaxExp2/2 in steps of one half
MaxExp2 == 3

\* characters of the drawn spec strings: a flag letter, two basic-type
\* letters, the separator marker, a non-alphabetic character, and a letter
\* that is neither a basic type nor a flag
SpecChars == {"L", "x", "d", "~", ".", "z"}

\* characters of the drawn default strings: a basic-type letter and the
\* separator marker, so that a default has either field empty or not
DefaultChars == {"d", "~"}

RECURSIVE StrsUpTo(_, _)
StrsUpTo(chars, n) ==
    IF n = 0 THEN {<<>>}
    ELSE LET shorter == StrsUpTo(chars, n - 1)
         IN  shorter \cup {Append(s, c) : s \in shorter, c \in chars}

\* the registries drawn: empty; one flag; a flag and its extension (as "L"
\* and "Lx" of pint.formatting, registered shortest first); a two-letter flag
\* alone; two overlapping two-letter flags
Registries ==
    { <<>>,
      << <<"L">> >>,
      << <<"L">>, <<"L", "x">> >>,
      << <<"L", "x">> >>,
      << <<"x", "d">>, <<"L", "x">> >> }

----------------------------------------------------------------------------
(* Characters. *)

BASIC_TYPES ==
    {"b", "c", "d", "e", "E", "f", "F", "g", "G", "n", "o", "s", "x", "X",
     "%", "u", "S"}

Letters ==
    {"a", "b", "c", "d", "e", "f", "g", "h", "i", "j", "k", "l", "m", "n",
     "o", "p", "q", "r", "s", "t", "u", "v", "w", "x", "y", "z",
     "A", "B", "C", "D", "E", "F", "G", "H", "I", "J", "K", "L", "M", "N",
     "O", "P", "Q", "R", "S", "T", "U", "V", "W", "X", "Y", "Z"}

isalpha(ch) == ch \in Letters

Tilde == <<"~">>

RECURSIVE concat(_)
concat(strs) == IF strs = <<>> THEN <<>> ELSE Head(strs) \o concat(Tail(strs))

Range(s) == {s[i] : i \in 1..Len(s)}

\* s[i:].startswith(t), i counted from 1
StartsWithAt(s, t, i) ==
    /\ i + Len(t) - 1 <= Len(s)
    /\ \A k \in 1..Len(t) : s[i + k - 1] = t[k]

----------------------------------------------------------------------------
(* Flag extraction and removal. *)

RECURSIVE ByLenFrom(_, _)
ByLenFrom(keys, n) ==
    IF n < 0 THEN <<>>
    ELSE SelectSeq(keys, LAMBDA k : Len(k) = n) \o ByLenFrom(keys, n - 1)

MaxKeyLen(keys) ==
    IF keys = <<>> THEN 0
    ELSE CHOOSE n \in {Len(keys[i]) : i \in 1..Len(keys)} :
            \A i \in 1..Len(keys) : Len(keys[i]) <= n

\* sorted(keys, key=len, reverse=False): the mutation of sorted_by_len
sorted_by_len_ascending(keys) ==
    LET RECURSIVE Up(_)
        Up(n) == IF n > MaxKeyLen(keys) THEN <<>>
                 ELSE SelectSeq(keys, LAMBDA k : Len(k) = n) \o Up(n + 1)
    IN  Up(0)

\* sorted(keys, key=len, reverse=True): longest first, stable
sorted_by_len(keys) == ByLenFrom(keys, MaxKeyLen(keys))

\* the alternative of the pattern (a|b|...) that matches at i: the first
\* one in the pattern's order; 0 when none does
FirstMatch(alts, s, i) ==
    LET hits == {k \in 1..Len(alts) : StartsWithAt(s, alts[k], i)}
    IN  IF hits = {} THEN 0 ELSE CHOOSE k \in hits : \A j \in hits : k <= j

\* flag_re.findall(spec): non-overlapping matches, left to right
RECURSIVE findall(_, _, _)
findall(alts, s, i) ==
    IF i > Len(s) THEN <<>>
    ELSE LET m == FirstMatch(alts, s, i)
         IN  IF m = 0 THEN findall(alts, s, i + 1)
             ELSE <<alts[m]>> \o findall(alts, s, i + Len(alts[m]))

extract_custom_flags(s, keys) ==
    IF s = <<>> THEN <<>>
    ELSE concat(findall(sorted_by_len(keys) \o <<Tilde>>, s, 1))

\* s.replace(flag, ""), from position i on
RECURSIVE replace_from(_, _, _)
replace_from(s, flag, i) ==
    IF i > Len(s) THEN <<>>
    ELSE IF StartsWithAt(s, flag, i) THEN replace_from(s, flag, i + Len(flag))
    ELSE <<s[i]>> \o replace_from(s, flag, i + 1)

RECURSIVE remove_each(_, _)
remove_each(s, flags) ==
    IF flags = <<>> THEN s
    ELSE remove_each(IF Head(flags) # <<>> THEN replace_from(s, Head(flags), 1)
                     ELSE s,
                     Tail(flags))

remove_custom_flags(s, keys) == remove_each(s, sorted_by_len(keys) \o <<Tilde>>)

----------------------------------------------------------------------------
(* _parse_spec. *)

NoError == <<>>
UnknownConversion(ch) == <<"ValueError", "Unknown conversion specified ", ch>>
ExpectedColon == <<"ValueError", "expected ':' after format specifier">>

\* the loop over reversed(spec), at position i with result so far
RECURSIVE parse_spec_from(_, _, _, _)
parse_spec_from(s, keys, i, result) ==
    IF i = 0 THEN [value |-> <<result>>, raised |-> NoError]
    ELSE LET ch == s[i] IN
         IF ch = "~" \/ ch \in BASIC_TYPES
            THEN parse_spec_from(s, keys, i - 1, result)
         ELSE IF <<ch>> \in Range(keys) \cup {Tilde}
            THEN IF result # <<>>
                    THEN [value |-> <<>>, raised |-> ExpectedColon]
                    ELSE parse_spec_from(s, keys, i - 1, <<ch>>)
         ELSE IF isalpha(ch)
            THEN [value |-> <<>>, raised |-> UnknownConversion(ch)]
         ELSE [value |-> <<result>>, raised |-> NoError]

parse_spec(s, keys) == parse_spec_from(s, keys, Len(s), <<>>)

----------------------------------------------------------------------------
(* split_format. *)

NoUnitFormatter == "The given format spec does not contain a unit formatter."
NoMagnitudeFormatter == "The given format spec does not contain a magnitude formatter."

\* x or y, on strings
Or(x, y) == IF x # <<>> THEN x ELSE y

\* split_format checking the spec with _parse_spec first: a mutation
split_format_validating(s, d, policy, keys) ==
    IF parse_spec(s, keys).raised # NoError
    THEN [value |-> <<>>, raised |-> parse_spec(s, keys).raised, warned |-> <<>>]
    ELSE [value  |-> << Or(remove_custom_flags(s, keys), remove_custom_flags(d, keys)),
                        Or(extract_custom_flags(s, keys), extract_custom_flags(d, keys)) >>,
          raised |-> NoError,
          warned |-> <<>>]

\* split_format warning and then falling back: a mutation
split_format_warning_then_merging(s, d, policy, keys) ==
    LET mspec         == remove_custom_flags(s, keys)
        uspec         == extract_custom_flags(s, keys)
        default_mspec == remove_custom_flags(d, keys)
        default_uspec == extract_custom_flags(d, keys)
    IN  [value  |-> <<Or(mspec, default_mspec), Or(uspec, default_uspec)>>,
         raised |-> NoError,
         warned |->
             IF s # <<>> /\ policy = "None"
             THEN (IF uspec = <<>> /\ default_uspec # <<>>
                   THEN <<NoUnitFormatter>> ELSE <<>>)
                  \o
                  (IF mspec = <<>> /\ default_mspec # <<>>
                   THEN <<NoMagnitudeFormatter>> ELSE <<>>)
             ELSE <<>>]

\* split_format falling back under every policy, silently: a mutation
split_format_always_merging(s, d, policy, keys) ==
    [value  |-> << Or(remove_custom_flags(s, keys), remove_custom_flags(d, keys)),
                   Or(extract_custom_flags(s, keys), extract_custom_flags(d, keys)) >>,
     raised |-> NoError,
     warned |-> <<>>]

\* split_format without the branch for an empty spec: a mutation
split_format_no_empty_branch(s, d, policy, keys) ==
    LET mspec         == remove_custom_flags(s, keys)
        uspec         == extract_custom_flags(s, keys)
        default_mspec == remove_custom_flags(d, keys)
        default_uspec == extract_custom_flags(d, keys)
    IN  IF policy \in {"False", "None"}
        THEN [value  |-> <<mspec, uspec>>,
              raised |-> NoError,
              warned |->
                  IF s # <<>> /\ policy = "None"
                  THEN (IF uspec = <<>> /\ default_uspec # <<>>
                        THEN <<NoUnitFormatter>> ELSE <<>>)
                       \o
                       (IF mspec = <<>> /\ default_mspec # <<>>
                        THEN <<NoMagnitudeFormatter>> ELSE <<>>)
                  ELSE <<>>]
        ELSE [value  |-> <<Or(mspec, default_mspec), Or(uspec, default_uspec)>>,
              raised |-> NoError,
              warned |-> <<>>]

split_format(s, d, policy, keys) ==
    LET mspec         == remove_custom_flags(s, keys)
        uspec         == extract_custom_flags(s, keys)
        default_mspec == remove_custom_flags(d, keys)
        default_uspec == extract_custom_flags(d, keys)
    IN  IF policy \in {"False", "None"}
        THEN IF s # <<>> /\ policy = "None"
             THEN [value  |-> <<mspec, uspec>>,
                   raised |-> NoError,
                   warned |->
                       (IF uspec = <<>> /\ default_uspec # <<>>
                        THEN <<NoUnitFormatter>> ELSE <<>>)
                       \o
                       (IF mspec = <<>> /\ default_mspec # <<>>
                        THEN <<NoMagnitudeFormatter>> ELSE <<>>)]
             ELSE IF s = <<>>
             THEN [value  |-> <<default_mspec, default_uspec>>,
                   raised |-> NoError,
                   warned |-> <<>>]
             ELSE [value  |-> <<mspec, uspec>>,
                   raised |-> NoError,
                   warned |-> <<>>]
        ELSE [value  |-> <<Or(mspec, default_mspec), Or(uspec, default_uspec)>>,
              raised |-> NoError,
              warned |-> <<>>]

----------------------------------------------------------------------------
(* The splitter: a registry and a spec are given, then one function runs. *)

NoRet == [value |-> <<>>, raised |-> NoError]

InitSplit ==
    /\ FORMATTERS \in Registries
    /\ spec \in StrsUpTo(SpecChars, MaxLen)
    /\ default = <<>>
    /\ separate_format_defaults = "True"
    /\ items = <<>>
    /\ as_ratio = TRUE
    /\ single_denominator = FALSE
    /\ product_fmt = <<>>
    /\ sort = TRUE
    /\ mstr = <<>>
    /\ ustr = <<>>
    /\ pos_terms = <<>>
    /\ neg_terms = <<>>
    /\ op = ""
    /\ ret = NoRet
    /\ warned = <<>>

FmtUnchanged ==
    UNCHANGED <<items, as_ratio, single_denominator, product_fmt, sort, mstr, ustr,
                pos_terms, neg_terms>>

ExtractCustomFlags ==
    /\ op = ""
    /\ op' = "extract_custom_flags"
    /\ ret' = [value |-> <<extract_custom_flags(spec, FORMATTERS)>>, raised |-> NoError]
    /\ UNCHANGED <<FORMATTERS, spec, default, separate_format_defaults, warned>>
    /\ FmtUnchanged

RemoveCustomFlags ==
    /\ op = ""
    /\ op' = "remove_custom_flags"
    /\ ret' = [value |-> <<remove_custom_flags(spec, FORMATTERS)>>, raised |-> NoError]
    /\ UNCHANGED <<FORMATTERS, spec, default, separate_format_defaults, warned>>
    /\ FmtUnchanged

ParseSpec ==
    /\ op = ""
    /\ op' = "_parse_spec"
    /\ ret' = parse_spec(spec, FORMATTERS)
    /\ UNCHANGED <<FORMATTERS, spec, default, separate_format_defaults, warned>>
    /\ FmtUnchanged

SplitFormat ==
    /\ op = ""
    /\ \E d \in StrsUpTo(DefaultChars, MaxDefLen), policy \in {"True", "False", "None"} :
          LET r == split_format(spec, d, policy, FORMATTERS) IN
          /\ default' = d
          /\ separate_format_defaults' = policy
          /\ ret' = [value |-> r.value, raised |-> r.raised]
          /\ warned' = r.warned
    /\ op' = "split_format"
    /\ UNCHANGED <<FORMATTERS, spec>>
    /\ FmtUnchanged

NextSplit == ExtractCustomFlags \/ RemoveCustomFlags \/ ParseSpec \/ SplitFormat

Spec == InitSplit /\ [][NextSplit]_vars

----------------------------------------------------------------------------
(* str.format, "{:n}".format and sorted. *)

Digits == <<"0", "1", "2", "3", "4", "5", "6", "7", "8", "9">>

isdigit(ch) == \E d \in 1..10 : Digits[d] = ch

\* int(name) of a string of digits
RECURSIVE int_of(_)
int_of(name) ==
    IF name = <<>> THEN 0
    ELSE 10 * int_of(SubSeq(name, 1, Len(name) - 1))
         + (CHOOSE d \in 0..9 : Digits[d + 1] = name[Len(name)])

\* fmt.format(*args) from position i on, auto being the next automatic
\* field number: a field is {} or {<digits>}
RECURSIVE format_from(_, _, _, _)
format_from(fmt, args, i, auto) ==
    IF i > Len(fmt) THEN <<>>
    ELSE IF fmt[i] = "{"
         THEN LET close == CHOOSE j \in (i + 1)..Len(fmt) :
                              fmt[j] = "}" /\ \A k \in (i + 1)..(j - 1) : fmt[k] # "}"
                  name  == SubSeq(fmt, i + 1, close - 1)
              IN  IF name = <<>>
                  THEN args[auto + 1] \o format_from(fmt, args, close + 1, auto + 1)
                  ELSE args[int_of(name) + 1] \o format_from(fmt, args, close + 1, auto)
         ELSE <<fmt[i]>> \o format_from(fmt, args, i + 1, auto)

format(fmt, args) == format_from(fmt, args, 1, 0)

\* An exponent is a number of halves: 2 is the exponent 1, -3 is -1.5.
Num(n) == 2 * n

abs(x) == IF x < 0 THEN -x ELSE x

RECURSIVE nat_str(_)
nat_str(n) ==
    IF n < 10 THEN <<Digits[n + 1]>>
    ELSE nat_str(n \div 10) \o <<Digits[(n % 10) + 1]>>

\* "{:n}".format(x), the default exp_call; _pretty_fmt_exponent renders the
\* same number with other glyphs and is left out
exp_call(x) ==
    (IF x < 0 THEN <<"-">> ELSE <<>>)
    \o nat_str(abs(x) \div 2)
    \o (IF abs(x) % 2 = 1 THEN <<".", "5">> ELSE <<>>)

LowerCase ==
    <<"a", "b", "c", "d", "e", "f", "g", "h", "i", "j", "k", "l", "m", "n",
      "o", "p", "q", "r", "s", "t", "u", "v", "w", "x", "y", "z">>

ord(ch) == CHOOSE i \in 1..Len(LowerCase) : LowerCase[i] = ch

\* a < b on str
RECURSIVE str_lt(_, _)
str_lt(a, b) ==
    IF b = <<>> THEN FALSE
    ELSE IF a = <<>> THEN TRUE
    ELSE IF Head(a) = Head(b) THEN str_lt(Tail(a), Tail(b))
    ELSE ord(Head(a)) < ord(Head(b))

\* t < u on (str, number) tuples
tuple_lt(t, u) == str_lt(t[1], u[1]) \/ (t[1] = u[1] /\ t[2] < u[2])

RECURSIVE insert_sorted(_, _)
insert_sorted(t, sorted_seq) ==
    IF sorted_seq = <<>> THEN <<t>>
    ELSE IF tuple_lt(t, Head(sorted_seq)) THEN <<t>> \o sorted_seq
    ELSE <<Head(sorted_seq)>> \o insert_sorted(t, Tail(sorted_seq))

\* sorted(items): ascending and stable
RECURSIVE sorted(_)
sorted(seq) ==
    IF seq = <<>> THEN <<>>
    ELSE insert_sorted(seq[Len(seq)], sorted(SubSeq(seq, 1, Len(seq) - 1)))

----------------------------------------------------------------------------
(* _join, formatter, join_mu. *)

\* __JOIN_REG_EXP.search(fmt), the pattern being {\d*}
JOIN_REG_EXP_search(fmt) ==
    \E i \in 1..Len(fmt), j \in 1..Len(fmt) :
        /\ i < j
        /\ fmt[i] = "{"
        /\ fmt[j] = "}"
        /\ \A k \in (i + 1)..(j - 1) : isdigit(fmt[k])

\* fmt.join(iterable)
RECURSIVE str_join(_, _)
str_join(sep, strs) ==
    IF strs = <<>> THEN <<>>
    ELSE IF Len(strs) = 1 THEN strs[1]
    ELSE strs[1] \o sep \o str_join(sep, Tail(strs))

\* the loop of _join: first = fmt.format(first, val) for each val
RECURSIVE join_fold(_, _, _)
join_fold(fmt, first, rest) ==
    IF rest = <<>> THEN first
    ELSE join_fold(fmt, format(fmt, <<first, Head(rest)>>), Tail(rest))

join(fmt, iterable) ==
    IF iterable = <<>> THEN <<>>
    ELSE IF ~JOIN_REG_EXP_search(fmt) THEN str_join(fmt, iterable)
    ELSE join_fold(fmt, Head(iterable), Tail(iterable))

DefaultProductFmt == <<" ", "*", " ">>
DefaultDivisionFmt == <<" ", "/", " ">>
DefaultPowerFmt == <<"{", "}", " ", "*", "*", " ", "{", "}">>
DefaultParenthesesFmt == <<"(", "{", "0", "}", ")">>

\* fun: exp_call(abs(x)) if as_ratio else exp_call(x)
fun(ratio, x) == IF ratio THEN exp_call(abs(x)) ELSE exp_call(x)

\* the loop over items with "value > 1" for "value > 0": a mutation
RECURSIVE classify_above_one(_, _, _)
classify_above_one(its, ratio, power_fmt) ==
    IF its = <<>> THEN [pos |-> <<>>, neg |-> <<>>]
    ELSE LET key   == its[1][1]
             value == its[1][2]
             rest  == classify_above_one(Tail(its), ratio, power_fmt)
         IN  IF value = Num(1)
                THEN [rest EXCEPT !.pos = <<key>> \o @]
             ELSE IF value > Num(1)
                THEN [rest EXCEPT !.pos = <<format(power_fmt, <<key, fun(ratio, value)>>)>> \o @]
             ELSE IF value = Num(-1) /\ ratio
                THEN [rest EXCEPT !.neg = <<key>> \o @]
             ELSE [rest EXCEPT !.neg = <<format(power_fmt, <<key, fun(ratio, value)>>)>> \o @]

\* the loop over items: pos_terms and neg_terms
RECURSIVE classify(_, _, _)
classify(its, ratio, power_fmt) ==
    IF its = <<>> THEN [pos |-> <<>>, neg |-> <<>>]
    ELSE LET key   == its[1][1]
             value == its[1][2]
             rest  == classify(Tail(its), ratio, power_fmt)
         IN  IF value = Num(1)
                THEN [rest EXCEPT !.pos = <<key>> \o @]
             ELSE IF value > 0
                THEN [rest EXCEPT !.pos = <<format(power_fmt, <<key, fun(ratio, value)>>)>> \o @]
             ELSE IF value = Num(-1) /\ ratio
                THEN [rest EXCEPT !.neg = <<key>> \o @]
             ELSE [rest EXCEPT !.neg = <<format(power_fmt, <<key, fun(ratio, value)>>)>> \o @]

\* neg_ret with the parentheses put for more than two terms: a mutation
neg_ret_more_than_two(neg, single, product, division, parentheses) ==
    IF single
    THEN IF Len(neg) > 2
         THEN format(parentheses, <<join(product, neg)>>)
         ELSE join(product, neg)
    ELSE join(division, neg)

\* neg_ret: the denominator of the ratio
neg_ret(neg, single, product, division, parentheses) ==
    IF single
    THEN IF Len(neg) > 1
         THEN format(parentheses, <<join(product, neg)>>)
         ELSE join(product, neg)
    ELSE join(division, neg)

\* pos_ret: the numerator of the ratio
pos_ret(pos, product) == Or(join(product, pos), <<"1">>)

\* what formatter returns from pos_terms and neg_terms
format_terms(pos, neg, ratio, single, product, division, parentheses) ==
    IF ~ratio THEN join(product, pos \o neg)
    ELSE IF neg = <<>> THEN pos_ret(pos, product)
    ELSE join(division,
              <<pos_ret(pos, product), neg_ret(neg, single, product, division, parentheses)>>)

\* items = sorted(items) if sort else tuple(items)
ordered(its, srt) == IF srt THEN sorted(its) ELSE its

formatter(its, ratio, single, product, division, power_fmt, parentheses, srt) ==
    IF its = <<>> THEN <<>>
    ELSE LET terms == classify(ordered(its, srt), ratio, power_fmt)
         IN  format_terms(terms.pos, terms.neg, ratio, single, product, division,
                          parentheses)

\* join_mu without the rewrite of a leading "1 / ": a mutation
join_mu_plain(joint_fstring, m, u) == format(joint_fstring, <<m, u>>)

join_mu(joint_fstring, m, u) ==
    IF StartsWithAt(u, <<"1", " ", "/", " ">>, 1)
    THEN format(joint_fstring, <<m, SubSeq(u, 3, Len(u))>>)
    ELSE format(joint_fstring, <<m, u>>)

----------------------------------------------------------------------------
(* The formatter and the join: an expression and a style are given,        *)
(* formatter renders the unit, join_mu joins it to a magnitude.           *)

Symbols == { <<"m">>, <<"s">>, <<"k", "g">> }

Exponents == (-MaxExp2)..MaxExp2

\* the expressions: the sequences of terms over distinct symbols
RECURSIVE Expressions(_)
Expressions(syms) ==
    {<<>>} \cup
    UNION { { <<<<sym, e>>>> \o rest : e \in Exponents, rest \in Expressions(syms \ {sym}) }
            : sym \in syms }

ProductFmts == { DefaultProductFmt, <<"{", "}", " ", "*", " ", "{", "}">> }

Magnitudes == { <<"5">> }

JointFmt == <<"{", "}", " ", "{", "}">>

InitFmt ==
    /\ FORMATTERS = <<>>
    /\ spec = <<>>
    /\ default = <<>>
    /\ separate_format_defaults = "True"
    /\ items \in Expressions(Symbols)
    /\ as_ratio \in BOOLEAN
    /\ single_denominator \in BOOLEAN
    /\ product_fmt \in ProductFmts
    /\ sort \in BOOLEAN
    /\ mstr = <<>>
    /\ ustr = <<>>
    /\ pos_terms = <<>>
    /\ neg_terms = <<>>
    /\ op = ""
    /\ ret = NoRet
    /\ warned = <<>>

SplitUnchanged ==
    UNCHANGED <<FORMATTERS, spec, default, separate_format_defaults, warned>>

Formatter ==
    /\ op = ""
    /\ op' = "formatter"
    /\ LET terms == IF items = <<>> THEN [pos |-> <<>>, neg |-> <<>>]
                    ELSE classify(ordered(items, sort), as_ratio, DefaultPowerFmt)
       IN  /\ pos_terms' = terms.pos
           /\ neg_terms' = terms.neg
    /\ ret' = [value  |-> << formatter(items, as_ratio, single_denominator, product_fmt,
                                       DefaultDivisionFmt, DefaultPowerFmt,
                                       DefaultParenthesesFmt, sort) >>,
               raised |-> NoError]
    /\ UNCHANGED <<items, as_ratio, single_denominator, product_fmt, sort, mstr, ustr>>
    /\ SplitUnchanged

JoinMu ==
    /\ op = "formatter"
    /\ op' = "join_mu"
    /\ \E m \in Magnitudes :
          /\ mstr' = m
          /\ ustr' = ret.value[1]
          /\ ret' = [value  |-> << join_mu(JointFmt, m, ret.value[1]) >>,
                     raised |-> NoError]
    /\ UNCHANGED <<items, as_ratio, single_denominator, product_fmt, sort,
                   pos_terms, neg_terms>>
    /\ SplitUnchanged

NextFmt == Formatter \/ JoinMu

FmtSpec == InitFmt /\ [][NextFmt]_vars

----------------------------------------------------------------------------
(* Properties of the splitter. *)

Called(f) == op = f

mspec_of(s) == remove_custom_flags(s, FORMATTERS)
uspec_of(s) == extract_custom_flags(s, FORMATTERS)

\* C1 as stated: under separate_format_defaults = None with a non-empty
\* spec, a field that is empty after splitting while the default's field is
\* not makes split_format warn and return the default's field.
C1_WarnsAndFallsBack ==
    (Called("split_format") /\ separate_format_defaults = "None" /\ spec # <<>>) =>
        /\ (uspec_of(spec) = <<>> /\ uspec_of(default) # <<>>) =>
               (NoUnitFormatter \in Range(warned) /\ ret.value[2] = uspec_of(default))
        /\ (mspec_of(spec) = <<>> /\ mspec_of(default) # <<>>) =>
               (NoMagnitudeFormatter \in Range(warned) /\ ret.value[1] = mspec_of(default))

\* C1 amended: in that case split_format warns and does not fall back: the
\* returned field is the spec's own, empty, field.
C1_WarnsWithoutFallback ==
    (Called("split_format") /\ separate_format_defaults = "None" /\ spec # <<>>) =>
        /\ ret.raised = NoError
        /\ (uspec_of(spec) = <<>> /\ uspec_of(default) # <<>>) =>
               (NoUnitFormatter \in Range(warned) /\ ret.value[2] = <<>>)
        /\ (mspec_of(spec) = <<>> /\ mspec_of(default) # <<>>) =>
               (NoMagnitudeFormatter \in Range(warned) /\ ret.value[1] = <<>>)

C1_Witness ==
    /\ Called("split_format") /\ separate_format_defaults = "None"
    /\ spec = <<".", "d">> /\ default = <<"d", "~">>
    /\ warned = <<NoUnitFormatter>>
    /\ ret.value = << <<".", "d">>, <<>> >>

\* C2 as stated: under separate_format_defaults = False split_format returns
\* what it returns under True, and warns of nothing.
C2_FalseEqualsTrue ==
    (Called("split_format") /\ separate_format_defaults = "False") =>
        /\ ret.value = split_format(spec, default, "True", FORMATTERS).value
        /\ warned = <<>>

\* C2 amended: under False split_format warns of nothing and returns the
\* default's two fields for an empty spec (as under True), and the spec's own
\* two fields, without any fallback, for a non-empty spec.
C2_FalseFallsBackOnlyOnEmptySpec ==
    (Called("split_format") /\ separate_format_defaults = "False") =>
        /\ warned = <<>>
        /\ ret.raised = NoError
        /\ spec = <<>> =>
              /\ ret.value = <<mspec_of(default), uspec_of(default)>>
              /\ ret.value = split_format(spec, default, "True", FORMATTERS).value
        /\ spec # <<>> => ret.value = <<mspec_of(spec), uspec_of(spec)>>

C2_Witness ==
    /\ Called("split_format") /\ separate_format_defaults = "False"
    /\ spec = <<"d">> /\ default = <<"~">>
    /\ ret.value = << <<"d">>, <<>> >>
    /\ split_format(spec, default, "True", FORMATTERS).value = << <<"d">>, <<"~">> >>

\* a recognized flag, or the separator marker, occurs in s
HoldsFlag(s, keys) ==
    \E f \in Range(keys) \cup {Tilde}, i \in 1..Len(s) : StartsWithAt(s, f, i)

\* C3: what remove_custom_flags returns holds no recognized flag and no
\* separator marker, nothing is extracted from it, and so the magnitude spec
\* split_format returns holds no recognized flag.
C3_NoFlagLeft ==
    /\ Called("remove_custom_flags") =>
          /\ ~HoldsFlag(ret.value[1], FORMATTERS)
          /\ extract_custom_flags(ret.value[1], FORMATTERS) = <<>>
    /\ Called("split_format") => ~HoldsFlag(ret.value[1], FORMATTERS)

\* C4 as stated: split_format on a spec holding a letter that is no basic
\* type and belongs to no flag fails, naming that letter, and returns nothing.
C4_SplitRaises ==
    Called("split_format") =>
        \A i \in 1..Len(spec) :
            ( /\ isalpha(spec[i])
              /\ spec[i] \notin BASIC_TYPES
              /\ \A f \in Range(FORMATTERS) : spec[i] \notin Range(f) )
            => \E j \in 1..Len(spec) :
                  /\ ret.raised = UnknownConversion(spec[j])
                  /\ ret.value = <<>>

\* what _parse_spec skips, and takes as a flag
Skipped(ch) == ch = "~" \/ ch \in BASIC_TYPES
FlagChar(ch, keys) == ~Skipped(ch) /\ <<ch>> \in Range(keys)

\* C4 amended: split_format never fails and returns a pair for every spec;
\* the error naming the letter is _parse_spec's, raised exactly when a letter
\* that is no basic type, no marker and no one-letter flag is followed, to
\* the end of the spec, only by basic types, markers and at most one
\* one-letter flag.
C4_OnlyParseSpecRaises ==
    /\ Called("split_format") => (ret.raised = NoError /\ Len(ret.value) = 2)
    /\ Called("_parse_spec") =>
          \A ch \in SpecChars :
              ret.raised = UnknownConversion(ch)
              <=> \E i \in 1..Len(spec) :
                     /\ spec[i] = ch
                     /\ isalpha(ch) /\ ~Skipped(ch) /\ ~FlagChar(ch, FORMATTERS)
                     /\ \A j \in (i + 1)..Len(spec) :
                            Skipped(spec[j]) \/ FlagChar(spec[j], FORMATTERS)
                     /\ Cardinality({j \in (i + 1)..Len(spec) :
                                        FlagChar(spec[j], FORMATTERS)}) <= 1

C4_Witness ==
    /\ Called("split_format")
    /\ spec = <<"z", "d">>
    /\ ret.raised = NoError
    /\ ret.value[1] = <<"z", "d">>

Count(s, ch) == Cardinality({i \in 1..Len(s) : s[i] = ch})

\* C5: the characters extract_custom_flags returns and those
\* remove_custom_flags returns are, counted with multiplicity, the characters
\* of the spec.
C5_Lossless ==
    Called("extract_custom_flags") =>
        \A ch \in SpecChars :
            Count(ret.value[1], ch) + Count(remove_custom_flags(spec, FORMATTERS), ch)
                = Count(spec, ch)

\* C6: for an empty spec split_format returns the default's two fields under
\* each policy and warns of nothing.
C6_EmptySpecReturnsDefault ==
    (Called("split_format") /\ spec = <<>>) =>
        /\ ret.value = <<mspec_of(default), uspec_of(default)>>
        /\ ret.raised = NoError
        /\ warned = <<>>

C6_Witness ==
    /\ Called("split_format") /\ spec = <<>>
    /\ separate_format_defaults = "None"
    /\ default = <<"d", "~">>
    /\ ret.value = << <<"d">>, <<"~">> >>
    /\ warned = <<>>

\* the longest of the flags and the marker that starts at i; <<>> when none
LongestAt(s, keys, i) ==
    LET cands == {f \in Range(keys) \cup {Tilde} : f # <<>> /\ StartsWithAt(s, f, i)}
    IN  IF cands = {} THEN <<>>
        ELSE CHOOSE f \in cands : \A g \in cands : Len(g) <= Len(f)

RECURSIVE LongestMatchScan(_, _, _)
LongestMatchScan(s, keys, i) ==
    IF i > Len(s) THEN <<>>
    ELSE IF LongestAt(s, keys, i) = <<>> THEN LongestMatchScan(s, keys, i + 1)
    ELSE LongestAt(s, keys, i)
         \o LongestMatchScan(s, keys, i + Len(LongestAt(s, keys, i)))

\* C10: extract_custom_flags returns what a left-to-right scan collects that
\* consumes, at each position, the longest flag or marker starting there and
\* otherwise skips one character.
C10_LongestMatchScan ==
    Called("extract_custom_flags") =>
        ret.value[1] = LongestMatchScan(spec, FORMATTERS, 1)

C10_Witness ==
    /\ Called("extract_custom_flags")
    /\ FORMATTERS = << <<"L">>, <<"L", "x">> >>
    /\ spec = <<"L", "x", "L">>
    /\ ret.value[1] = <<"L", "x", "L">>

----------------------------------------------------------------------------
(* Properties of the formatter and the join. *)

C7Items == << <<<<"m">>, Num(1)>>, <<<<"s">>, Num(-1)>>, <<<<"k", "g">>, Num(-1)>> >>

C7Call ==
    /\ Called("formatter")
    /\ items = C7Items
    /\ as_ratio /\ single_denominator
    /\ product_fmt = DefaultProductFmt

\* C7 as stated: with as_ratio and single_denominator set and every other
\* parameter at its default (so sort = True), formatter renders m, s^-1,
\* kg^-1 as "m / (s * kg)".
C7_OrderKeptByDefault ==
    (C7Call /\ sort) =>
        ret.value[1] = <<"m", " ", "/", " ", "(", "s", " ", "*", " ", "k", "g", ")">>

\* C7 amended: the terms keep their given order, "m / (s * kg)", when sort
\* is False; at the default sort = True they are sorted by symbol and the
\* result is "m / (kg * s)". The denominator has two terms and is wrapped in
\* parentheses either way.
C7_OrderKeptWithoutSort ==
    C7Call =>
        ret.value[1] =
            IF sort
            THEN <<"m", " ", "/", " ", "(", "k", "g", " ", "*", " ", "s", ")">>
            ELSE <<"m", " ", "/", " ", "(", "s", " ", "*", " ", "k", "g", ")">>

C7_Witness ==
    /\ C7Call /\ ~sort
    /\ neg_terms = << <<"s">>, <<"k", "g">> >>
    /\ ret.value[1] = <<"m", " ", "/", " ", "(", "s", " ", "*", " ", "k", "g", ")">>

OneOver == <<"1", " ", "/", " ">>

AllNegative(its) == its # <<>> /\ \A i \in 1..Len(its) : its[i][2] < 0

\* C8: in ratio mode with the default formats a non-empty expression of
\* negative exponents only is rendered with a leading "1 / ", and join_mu
\* with "{} {}" then returns the magnitude, a space, and the unit string
\* without its first two characters; a unit string without that lead is
\* joined as it is.
C8_ReciprocalJoin ==
    /\ (Called("formatter") /\ AllNegative(items) /\ as_ratio
            /\ product_fmt = DefaultProductFmt) =>
          StartsWithAt(ret.value[1], OneOver, 1)
    /\ Called("join_mu") =>
          /\ (AllNegative(items) /\ as_ratio /\ product_fmt = DefaultProductFmt) =>
                 StartsWithAt(ustr, OneOver, 1)
          /\ StartsWithAt(ustr, OneOver, 1) =>
                 ret.value[1] = mstr \o <<" ">> \o SubSeq(ustr, 3, Len(ustr))
          /\ ~StartsWithAt(ustr, OneOver, 1) =>
                 ret.value[1] = mstr \o <<" ">> \o ustr

C8_Witness ==
    /\ Called("join_mu")
    /\ items = << <<<<"s">>, Num(-1)>> >>
    /\ as_ratio
    /\ ustr = <<"1", " ", "/", " ", "s">>
    /\ mstr = <<"5">>
    /\ ret.value[1] = <<"5", " ", "/", " ", "s">>

\* the terms formatter went through, in the order it did
Processed == IF items = <<>> THEN <<>> ELSE ordered(items, sort)

\* a term as formatter renders it: the bare symbol, or power_fmt applied
Bare(term) == term[1]
Power(term) == term[1] \o <<" ", "*", "*", " ">> \o fun(as_ratio, term[2])

Render(term) ==
    IF term[2] = Num(1) \/ (term[2] = Num(-1) /\ as_ratio)
    THEN Bare(term) ELSE Power(term)

RenderAll(terms) == [i \in 1..Len(terms) |-> Render(terms[i])]

\* C9 as stated: the positive bucket holds the terms of exponent 1 (bare) or
\* greater than 1 (power_fmt), the negative bucket every other term (bare
\* for -1 in ratio mode, power_fmt otherwise).
C9_PositiveFromOne ==
    Called("formatter") =>
        /\ pos_terms = RenderAll(SelectSeq(Processed, LAMBDA t : t[2] >= Num(1)))
        /\ neg_terms = RenderAll(SelectSeq(Processed, LAMBDA t : ~(t[2] >= Num(1))))

\* C9 amended: the positive bucket holds the terms of exponent greater than
\* 0, bare for 1 and with power_fmt otherwise, so also those strictly between
\* 0 and 1; the negative bucket holds the terms of exponent 0 or less.
C9_PositiveAboveZero ==
    Called("formatter") =>
        /\ pos_terms = RenderAll(SelectSeq(Processed, LAMBDA t : t[2] > 0))
        /\ neg_terms = RenderAll(SelectSeq(Processed, LAMBDA t : ~(t[2] > 0)))

C9_Witness ==
    /\ Called("formatter")
    /\ as_ratio /\ ~sort
    /\ items = << <<<<"m">>, 1>>, <<<<"s">>, 0>>, <<<<"k", "g">>, Num(-1)>> >>
    /\ pos_terms = << <<"m", " ", "*", "*", " ", "0", ".", "5">> >>
    /\ neg_terms = << <<"s", " ", "*", "*", " ", "0">>, <<"k", "g">> >>

====
